---- MODULE Spec2Model ----
(***************************************************************************)
(* Louvain local search of graph_tool.community (louvain, louvain_step,    *)
(* deltas, reverse_dict), src/src/graph_tool/community/__init__.py.        *)
(*                                                                         *)
(* Conventions of the model                                                *)
(*  - a graph is a record [n, E, directed, isGraph]: vertices 0..n-1, E a  *)
(*    sequence of edges <<a, b>> with a <= b (the edge list, edge index =  *)
(*    position); parallel edges and self-loops are allowed;                *)
(*  - Python's None is <<>>; an edge weight map w is held as <<w>> (w a    *)
(*    sequence aligned with E), so that "no map" and "a map on zero edges" *)
(*    differ;                                                              *)
(*  - v.all_edges() of an undirected graph lists every incident edge with  *)
(*    target() the other endpoint; a self-loop is listed twice (and counts *)
(*    twice in the degree);                                                *)
(*  - a property map object is truthy ("if partition", "if not kw",        *)
(*    "if w" test for None);                                               *)
(*  - real numbers are exact rationals: deltaq is kept as its numerator    *)
(*    over m*m, the threshold as its numerator over ThrDen;                *)
(*  - the iteration order of a Python set is not specified: the loop over  *)
(*    neighcomms is modelled as a choice over every order.                 *)
(***************************************************************************)
EXTENDS Integers, Sequences, FiniteSets, TLC

MaxV == 3   \* vertices of the enumerated graphs
MaxE == 2   \* edges of the enumerated graphs
MaxMoves == 3   \* the history counter moves stops counting here

ThrDen == 100000                    \* thresholds are k / ThrDen; 1/ThrDen is the default 0.00001
Thresholds == {0, 1, 12500}         \* 0, 1e-5 (default), 0.125
WeightValues == {0, 1}              \* values of a supplied edge weight map

None == <<>>

VARIABLES
    fn,            \* the function called: "louvain" or "louvain_step"
    g,             \* argument g
    weight,        \* argument weight (None or <<w>>)
    partition,     \* argument partition (None or a vertex -> community map)
    threshold,     \* argument threshold (numerator over ThrDen)
    work_graph,    \* louvain: work_graph; louvain_step: its parameter g
    work_weight,   \* louvain: weight after line 422; louvain_step: its parameter weight
    old_partition, \* louvain: old_partition; louvain_step: its parameter partition
    dendo,         \* louvain: dendo
    kw,            \* weighted degrees (None until computed)
    m,             \* sum of the weighted degrees; None is held as 0 (line 456 reads both as "not m")
    new_partition, \* louvain_step: new_partition
    c2v,           \* louvain_step: c2v, community -> set of vertices
    neigh,         \* louvain_step: neigh, vertex -> set of adjacent vertices
    changed,       \* louvain_step: changed
    v,             \* louvain_step: the vertex the for loop is at
    moves,         \* number of moves applied so far (history)
    pc,            \* position: "louvain", "louvain_step", "while", "for", "return", "done", "raised"
    exc,           \* the exception raised ("" when none)
    ret,           \* the value returned (None until the call returns)
    rerun          \* louvain_step has been called again on the partition it returned

vars == <<fn, g, weight, partition, threshold, work_graph, work_weight, old_partition,
          dendo, kw, m, new_partition, c2v, neigh, changed, v, moves, pc, exc, ret, rerun>>

-----------------------------------------------------------------------------
(* Graph primitives used by the code *)

Vertices(G) == 0 .. (G.n - 1)

EdgeIds(G) == 1 .. Len(G.E)

RECURSIVE SumTo(_, _)
SumTo(f, k) == IF k = 0 THEN 0 ELSE f[k] + SumTo(f, k - 1)

RECURSIVE SumSet(_, _)
SumSet(f, S) == IF S = {} THEN 0
                ELSE LET x == CHOOSE y \in S : TRUE IN f[x] + SumSet(f, S \ {x})

\* number of entries of x.all_edges() that are edge i and have target() in S
Mult(G, x, i, S) ==
    (IF G.E[i][1] = x /\ G.E[i][2] \in S THEN 1 ELSE 0)
  + (IF G.E[i][2] = x /\ G.E[i][1] \in S THEN 1 ELSE 0)

\* weight[e]; only defined for a supplied map
WeightOf(W, i) == W[1][i]

\* the weight the degree computation gives edge i: weight[e], or 1 without a map
UnitOr(W, i) == IF W = None THEN 1 ELSE WeightOf(W, i)

\* g.degree_property_map('total', weight)
degree_property_map(G, W) ==
    [x \in Vertices(G) |->
        SumTo([i \in EdgeIds(G) |-> Mult(G, x, i, Vertices(G)) * UnitOr(W, i)], Len(G.E))]

\* sum(kw.a)
SumKw(G, k) == SumSet(k, Vertices(G))

\* set(v.all_neighbours()) with v itself removed (lines 461-465)
NeighOf(G, x) ==
    {y \in Vertices(G) \ {x} : \E i \in EdgeIds(G) : Mult(G, x, i, {y}) > 0}

\* g.vertex_index.copy('int')
vertex_index(G) == [x \in Vertices(G) |-> x]

\* g.edge(v, v): the first self-loop of x in the edge list, 0 when there is none
SelfLoop(G, x) ==
    LET L == {i \in EdgeIds(G) : G.E[i] = <<x, x>>}
    IN  IF L = {} THEN 0 ELSE CHOOSE i \in L : \A j \in L : i <= j

\* reverse_dict(d, keys)
reverse_dict(d, keys) ==
    [c \in {d[x] : x \in keys} |-> {x \in keys : d[x] = c}]


-----------------------------------------------------------------------------
(* louvain_step and deltas *)

\* lines 483-488: s2 and d of vertex x in community cur, as [exc, s2, d].
\* Without a weight map, weight[e] (line 485, for an edge of x into its own
\* community; line 488, for a self-loop) subscripts None: TypeError.
CurrentSums(G, W, KW, C2V, cur, x) ==
    LET hits == {i \in EdgeIds(G) : Mult(G, x, i, C2V[cur]) > 0}
        ee   == SelfLoop(G, x)
    IN  IF W = None
        THEN [exc |-> IF hits # {} \/ ee # 0 THEN "TypeError" ELSE "",
              s2  |-> SumSet(KW, C2V[cur]) - KW[x],
              d   |-> 0]
        ELSE [exc |-> "",
              s2  |-> SumSet(KW, C2V[cur]) - KW[x],
              d   |-> SumTo([i \in EdgeIds(G) |-> Mult(G, x, i, C2V[cur]) * WeightOf(W, i)],
                            Len(G.E))
                      - (IF ee # 0 THEN WeightOf(W, ee) ELSE 0)]

\* the candidates taken over all the communities of c2v, neighbouring or not
NeighComms_All(P, NB, x) == (DOMAIN c2v) \ {P[x]}

\* lines 494-497: the communities of the neighbours of x, without its own
NeighComms(P, NB, x) == {P[y] : y \in NB[x]} \ {P[x]}

\* deltas with the sign of the degree term wrong
deltas_SignSlip(G, x, C2V, new_community, s2, d, w, KW, M) ==
    LET edges == {i \in EdgeIds(G) : Mult(G, x, i, Vertices(G)) > 0}
        delta == SumTo([i \in EdgeIds(G) |-> Mult(G, x, i, C2V[new_community])], Len(G.E)) - d
        s     == SumSet(KW, C2V[new_community]) - s2 + KW[x]
        mm    == IF M = 0 THEN SumKw(G, KW) ELSE M
    IN  IF w # None /\ edges # {} THEN [exc |-> "TypeError", num |-> 0]
        ELSE IF mm = 0 THEN [exc |-> "ZeroDivisionError", num |-> 0]
        ELSE [exc |-> "", num |-> 2 * (KW[x] * s - delta * mm)]

\* deltas, lines 566-586, as [exc, num]: num is the numerator of deltaq over m*m,
\* deltaq = 2*(delta - (kw[x]/m)*s)/m = 2*(delta*m - kw[x]*s)/(m*m).
\* With a weight map, line 574 subscripts the set c2v[new_community]: TypeError
\* on the first edge of x.
deltas(G, x, C2V, new_community, s2, d, w, KW, M) ==
    LET edges == {i \in EdgeIds(G) : Mult(G, x, i, Vertices(G)) > 0}
        delta == SumTo([i \in EdgeIds(G) |-> Mult(G, x, i, C2V[new_community])], Len(G.E)) - d
        s1    == SumSet(KW, C2V[new_community])
        s     == s1 - s2 + KW[x]
        mm    == IF M = 0 THEN SumKw(G, KW) ELSE M
    IN  IF w # None /\ edges # {} THEN [exc |-> "TypeError", num |-> 0]
        ELSE IF mm = 0 THEN [exc |-> "ZeroDivisionError", num |-> 0]
        ELSE [exc |-> "", num |-> 2 * (delta * mm - KW[x] * s)]

\* the loop keeping any candidate of positive gain, best or not
Best_AnyPositive(cand, dq, cur) ==
    LET pos == {n \in cand : dq[n].num > 0}
    IN  IF pos = {} THEN {cur} ELSE pos

\* lines 500-512: the candidates the loop can end with as newcom. A candidate
\* replaces the running best only when strictly better (line 508), the running
\* best starts at 0.0 with newcom the current community.
Best(cand, dq, cur) ==
    LET pos == {n \in cand : dq[n].num > 0}
    IN  IF pos = {} THEN {cur}
        ELSE {n \in pos : \A k \in pos : dq[k].num <= dq[n].num}

\* line 514 with >= for >
Exceeds_NotStrict(num, M, thr) ==
    IF M = 0 THEN 0 >= thr ELSE num * ThrDen >= thr * M * M

\* line 514: increase[0] > threshold, increase = num/(M*M), threshold = thr/ThrDen
Exceeds(num, M, thr) ==
    IF M = 0 THEN 0 > thr ELSE num * ThrDen > thr * M * M

\* the move without line 517
MoveVertex_NoRemove(P, C, x, cur, newcom) ==
    [p |-> [P EXCEPT ![x] = newcom],
     c |-> [C EXCEPT ![newcom] = @ \cup {x}]]

\* lines 517-519: the move of x from cur to newcom, as [p, c]
MoveVertex(P, C, x, cur, newcom) ==
    LET C1 == [C EXCEPT ![cur] = @ \ {x}]
    IN  [p |-> [P EXCEPT ![x] = newcom],
         c |-> [C1 EXCEPT ![newcom] = @ \cup {x}]]


-----------------------------------------------------------------------------
(* The calls the model starts from *)

Pairs(n) == {p \in (0 .. n - 1) \X (0 .. n - 1) : p[1] <= p[2]}

PairLeq(p, q) == p[1] < q[1] \/ (p[1] = q[1] /\ p[2] <= q[2])

\* edge lists of at most MaxE edges, in one order each (the code only sums over edges)
EdgeLists(n) ==
    UNION {{e \in [1 .. k -> Pairs(n)] : \A i \in 1 .. k - 1 : PairLeq(e[i], e[i + 1])}
           : k \in 0 .. MaxE}

WeightMaps(e) == {None} \cup {<<w>> : w \in [1 .. Len(e) -> WeightValues]}

\* vertex -> community maps, one per partition of the vertices: the code uses
\* community ids as dictionary keys only, so the ids are named in order of first use
Partitions(n) ==
    {p \in [0 .. n - 1 -> 0 .. n - 1] :
        p[0] = 0 /\ \A i \in 1 .. n - 1 : \E j \in 0 .. i - 1 : p[i] <= p[j] + 1}

TwoTriangles ==
    [n |-> 6, E |-> << <<0, 1>>, <<0, 2>>, <<1, 2>>, <<3, 4>>, <<3, 5>>, <<4, 5>> >>,
     directed |-> FALSE, isGraph |-> TRUE]

\* a graph on which a move into a neighbouring community would lower the
\* modularity: 0 has one edge to 1 and one to 2, and {1, 3} carries 5 of m = 8
HeavyPair ==
    [n |-> 4, E |-> << <<0, 1>>, <<0, 2>>, <<1, 3>>, <<1, 3>> >>,
     directed |-> FALSE, isGraph |-> TRUE]

\* four vertices: 0 has two parallel edges to 1 and one edge to 2, and 3 carries
\* a self-loop; seeded with 0 and 3 together, 0 has two gainful moves of
\* different gain
TwoOffers ==
    [n |-> 4, E |-> << <<0, 1>>, <<0, 1>>, <<0, 2>>, <<3, 3>> >>,
     directed |-> FALSE, isGraph |-> TRUE]

OnesOn(G) == << [i \in EdgeIds(G) |-> 1] >>

InitWith(f, G, w, p, thr) ==
    /\ fn = f
    /\ g = G
    /\ weight = w
    /\ partition = p
    /\ threshold = thr
    /\ work_graph = IF f = "louvain" THEN None ELSE G
    /\ work_weight = IF f = "louvain" THEN None ELSE w
    /\ old_partition = IF f = "louvain" THEN None ELSE p
    /\ dendo = None
    /\ kw = None
    /\ m = 0
    /\ new_partition = None
    /\ c2v = None
    /\ neigh = None
    /\ changed = FALSE
    /\ v = 0
    /\ moves = 0
    /\ pc = f
    /\ exc = ""
    /\ ret = None
    /\ rerun = FALSE

Init ==
    \/ \E n \in 1 .. MaxV : \E e \in EdgeLists(n) : \E w \in WeightMaps(e) :
       \E f \in {"louvain", "louvain_step"} :
       \E d \in IF f = "louvain" THEN BOOLEAN ELSE {FALSE} :
       \E t \in IF f = "louvain" THEN BOOLEAN ELSE {TRUE} :
       \E p \in IF f = "louvain" THEN {None} \cup Partitions(n) ELSE Partitions(n) :
       \E thr \in Thresholds :
           InitWith(f, [n |-> n, E |-> e, directed |-> d, isGraph |-> t], w, p, thr)
    \/ \E w \in {None, OnesOn(TwoTriangles)} :
           InitWith("louvain", TwoTriangles, w, None, 1)
    \/ \E G \in {HeavyPair, TwoOffers} :
       \E p \in Partitions(G.n) : \E thr \in Thresholds :
           InitWith("louvain_step", G, None, p, thr)

-----------------------------------------------------------------------------
(* condensation_graph (graph_tool.community.blockmodel), by its contract: one
   vertex per community, numbered in the order of the community ids; one edge
   per pair of communities joined by an edge, a self-loop for the edges inside
   a community; weights summed; every coarse vertex its own community. *)

CoarseId(G, P, x) == Cardinality({c \in {P[y] : y \in Vertices(G)} : c < P[x]})

CoarsePair(G, P, i) ==
    LET a == CoarseId(G, P, G.E[i][1])
        b == CoarseId(G, P, G.E[i][2])
    IN  IF a <= b THEN <<a, b>> ELSE <<b, a>>

SortedSeq(S) ==
    CHOOSE e \in [1 .. Cardinality(S) -> S] :
        \A i \in 1 .. Cardinality(S) - 1 : PairLeq(e[i], e[i + 1]) /\ e[i] # e[i + 1]

condensation_graph(G, P, W) ==
    LET E2 == SortedSeq({CoarsePair(G, P, i) : i \in EdgeIds(G)})
        n2 == Cardinality({P[y] : y \in Vertices(G)})
    IN  [g |-> [n |-> n2, E |-> E2, directed |-> FALSE, isGraph |-> TRUE],
         partition |-> [x \in 0 .. n2 - 1 |-> x],
         weight |-> << [k \in 1 .. Len(E2) |->
                          SumTo([i \in EdgeIds(G) |->
                                    IF CoarsePair(G, P, i) = E2[k] THEN UnitOr(W, i) ELSE 0],
                                Len(G.E))] >>]

-----------------------------------------------------------------------------
(* Actions *)

Raise(e) ==
    /\ pc' = "raised"
    /\ exc' = e
    /\ UNCHANGED <<rerun, fn, g, weight, partition, threshold, work_graph, work_weight,
                   old_partition, dendo, kw, m, new_partition, c2v, neigh, changed,
                   v, moves, ret>>

\* lines 396-400: the inputs louvain rejects with TypeError
Rejected_TypeOnly(G) == ~G.isGraph

Rejected(G) == ~G.isGraph \/ G.directed

\* lines 403-416: what louvain returns for a graph without edges
ZeroEdgeResult_IgnoresSeed(G, P) == vertex_index(G)

ZeroEdgeResult(G, P) == IF P # None THEN P ELSE vertex_index(G)

\* louvain, lines 396-439: validation, the zero-edge returns, the work graph,
\* the degrees and m, up to the call of louvain_step
louvain ==
    /\ pc = "louvain"
    /\ IF Rejected(g)
       THEN Raise("TypeError")
       ELSE IF Len(g.E) = 0
       THEN /\ ret' = ZeroEdgeResult(g, partition)
            /\ pc' = "done"
            /\ UNCHANGED <<rerun, fn, g, weight, partition, threshold, work_graph, work_weight,
                           old_partition, dendo, kw, m, new_partition, c2v, neigh,
                           changed, v, moves, exc>>
       ELSE LET st == IF partition # None
                      THEN condensation_graph(g, partition, weight)
                      ELSE [g |-> g, partition |-> vertex_index(g), weight |-> weight]
                k  == degree_property_map(st.g, st.weight)
            IN  /\ work_graph' = st.g
                /\ old_partition' = st.partition
                /\ work_weight' = st.weight
                /\ dendo' = <<st.partition>>
                /\ kw' = k
                /\ m' = SumKw(st.g, k)
                /\ pc' = "louvain_step"
                /\ UNCHANGED <<rerun, fn, g, weight, partition, threshold, new_partition, c2v,
                               neigh, changed, v, moves, exc, ret>>

\* louvain_step, lines 446-468: the set-up before the loop
louvain_step ==
    /\ pc = "louvain_step"
    /\ LET k == IF kw = None THEN degree_property_map(work_graph, work_weight) ELSE kw
       IN  /\ kw' = k
           /\ new_partition' = old_partition
           /\ c2v' = reverse_dict(old_partition, Vertices(work_graph))
           /\ m' = IF m = 0 THEN SumKw(work_graph, k) ELSE m
           /\ neigh' = [x \in Vertices(work_graph) |-> NeighOf(work_graph, x)]
           /\ changed' = TRUE
           /\ pc' = "while"
           /\ UNCHANGED <<rerun, fn, g, weight, partition, threshold, work_graph, work_weight,
                          old_partition, dendo, v, moves, exc, ret>>

\* the loop of line 470 as an "if": one sweep (v is 0 only before it), then the return
While_SingleSweep ==
    /\ pc = "while"
    /\ IF changed /\ v = 0
       THEN /\ changed' = FALSE
            /\ v' = 0
            /\ pc' = IF work_graph.n = 0 THEN "while" ELSE "for"
       ELSE /\ pc' = "return"
            /\ UNCHANGED <<changed, v>>
    /\ UNCHANGED <<rerun, fn, g, weight, partition, threshold, work_graph, work_weight,
                   old_partition, dendo, kw, m, new_partition, c2v, neigh, moves, exc, ret>>

\* lines 470-475: the test of the while loop and the start of a sweep
While ==
    /\ pc = "while"
    /\ IF changed
       THEN /\ changed' = FALSE
            /\ v' = 0
            /\ pc' = IF work_graph.n = 0 THEN "while" ELSE "for"
       ELSE /\ pc' = "return"
            /\ UNCHANGED <<changed, v>>
    /\ UNCHANGED <<rerun, fn, g, weight, partition, threshold, work_graph, work_weight,
                   old_partition, dendo, kw, m, new_partition, c2v, neigh, moves, exc, ret>>

\* new_partition = partition: one map under two names, a write reaches both
Unshared_Alias(arg, written) == written

\* line 452: new_partition = g.copy_property(partition) is a map of its own, so
\* the map passed in (arg) is as it was after new_partition is written (line 518)
Unshared(arg, written) == arg

\* lines 476-520: the body of the for loop for vertex v
ForBody ==
    /\ pc = "for"
    /\ LET cur  == new_partition[v]
           cs   == CurrentSums(work_graph, work_weight, kw, c2v, cur, v)
           cand == NeighComms(new_partition, neigh, v)
           dq   == [n \in cand |->
                      deltas(work_graph, v, c2v, n, cs.s2, cs.d, work_weight, kw, m)]
       IN  IF cs.exc # ""
           THEN Raise(cs.exc)
           ELSE IF \E n \in cand : dq[n].exc # ""
           THEN \E n \in {k \in cand : dq[k].exc # ""} : Raise(dq[n].exc)
           ELSE \E newcom \in Best(cand, dq, cur) :
                LET increase == IF newcom = cur THEN 0 ELSE dq[newcom].num
                    mv       == MoveVertex(new_partition, c2v, v, cur, newcom)
                    move     == Exceeds(increase, m, threshold)
                IN  /\ new_partition' = IF move THEN mv.p ELSE new_partition
                    /\ c2v' = IF move THEN mv.c ELSE c2v
                    /\ changed' = (changed \/ move)
                    /\ moves' = IF move /\ moves < MaxMoves THEN moves + 1 ELSE moves
                    /\ v' = IF v + 1 < work_graph.n THEN v + 1 ELSE v
                    /\ pc' = IF v + 1 < work_graph.n THEN "for" ELSE "while"
                    /\ old_partition' = Unshared(old_partition, new_partition')
                    /\ dendo' = IF dendo = None THEN dendo
                                ELSE <<Unshared(dendo[1], new_partition')>>
                    /\ UNCHANGED <<rerun, fn, g, weight, partition, threshold, work_graph,
                                   work_weight, kw, m, neigh, exc, ret>>

\* a level is appended only when the search changed the partition
AppendLevel_SkipIdle(D, P) == IF P = D[Len(D)] THEN D ELSE Append(D, P)

\* lines 440-441: thepart = g.copy_property(new_partition); dendo.append(thepart)
AppendLevel(D, P) == Append(D, P)

\* line 522, and for a call from louvain lines 440-443
Return ==
    /\ pc = "return"
    /\ dendo' = IF fn = "louvain" THEN AppendLevel(dendo, new_partition) ELSE dendo
    /\ ret' = IF fn = "louvain" THEN AppendLevel(dendo, new_partition) ELSE new_partition
    /\ pc' = "done"
    /\ UNCHANGED <<rerun, fn, g, weight, partition, threshold, work_graph, work_weight,
                   old_partition, kw, m, new_partition, c2v, neigh, changed, v, moves, exc>>

\* the caller calls louvain_step(g, partition, threshold, weight) once more, on
\* the partition the first call returned (m and kw are left to their defaults)
Rerun ==
    /\ pc = "done"
    /\ fn = "louvain_step"
    /\ ~rerun
    /\ rerun' = TRUE
    /\ old_partition' = ret
    /\ kw' = None
    /\ m' = 0
    /\ new_partition' = None
    /\ c2v' = None
    /\ neigh' = None
    /\ changed' = FALSE
    /\ v' = 0
    /\ moves' = 0
    /\ ret' = None
    /\ pc' = "louvain_step"
    /\ UNCHANGED <<fn, g, weight, partition, threshold, work_graph, work_weight, dendo, exc>>

Next == louvain \/ louvain_step \/ While \/ ForBody \/ Return \/ Rerun

Spec == Init /\ [][Next]_vars

\* the interpreter runs the call to its end: a step that can be taken is taken
FairSpec == Init /\ [][Next]_vars /\ WF_vars(Next)

-----------------------------------------------------------------------------
(* Newman's modularity, Q = sum_s e_ss - (sum_r e_rs)^2, as the integer Q*M*M,
   M the sum of the weighted degrees: e_ss = 2*inside(s)/M, sum_r e_rs = tot(s)/M *)

Inside(G, W, S) ==
    SumTo([i \in EdgeIds(G) |->
              IF G.E[i][1] \in S /\ G.E[i][2] \in S THEN UnitOr(W, i) ELSE 0], Len(G.E))

QNum(G, W, P) ==
    LET K  == degree_property_map(G, W)
        M  == SumKw(G, K)
        cs == {P[x] : x \in Vertices(G)}
        members(c) == {x \in Vertices(G) : P[x] = c}
    IN  SumSet([c \in cs |-> 2 * Inside(G, W, members(c)) * M
                             - SumSet(K, members(c)) * SumSet(K, members(c))], cs)

\* the partition P with x relocated to community n
Relocated(P, x, n) == [P EXCEPT ![x] = n]

\* the local search has been set up (lines 452-465 have run)
InSearch == pc \in {"while", "for", "return"} \/ (pc \in {"done", "raised"} /\ c2v # None)

\* the ids of the communities that have a member
NonEmptyIds == {c \in DOMAIN c2v : c2v[c] # {}}

\* the evaluation of vertex v reaches the calls of deltas (lines 483-488 do not raise)
AtDeltas ==
    /\ pc = "for"
    /\ CurrentSums(work_graph, work_weight, kw, c2v, new_partition[v], v).exc = ""
    /\ NeighComms(new_partition, neigh, v) # {}

\* what deltas returns for candidate n of vertex v
DeltaOf(n) ==
    LET cs == CurrentSums(work_graph, work_weight, kw, c2v, new_partition[v], v)
    IN  deltas(work_graph, v, c2v, n, cs.s2, cs.d, work_weight, kw, m)

-----------------------------------------------------------------------------
(* Claims *)

\* C1: during the local search, at its start, after every move and at its end,
\* vertex -> community and community -> members agree: every vertex is in the
\* member set of its own community and in no other, the member sets are
\* pairwise disjoint and their sizes add up to the number of vertices.
C1_MapsConsistent ==
    InSearch =>
        /\ \A x \in Vertices(work_graph) :
              /\ new_partition[x] \in DOMAIN c2v
              /\ \A c \in DOMAIN c2v : (x \in c2v[c]) <=> (c = new_partition[x])
        /\ \A c1 \in DOMAIN c2v : \A c2 \in DOMAIN c2v \ {c1} : c2v[c1] \cap c2v[c2] = {}
        /\ SumSet([c \in DOMAIN c2v |-> Cardinality(c2v[c])], DOMAIN c2v) = work_graph.n

\* C1 witness: a move has been applied and has emptied a community
C1_Witness ==
    /\ InSearch
    /\ moves >= 1
    /\ \E c \in DOMAIN c2v : c2v[c] = {}
    /\ \E c \in DOMAIN c2v : Cardinality(c2v[c]) >= 2

\* C2: with a threshold > 0, no step of the local search lowers Newman's
\* modularity of the partition (so it is no lower after a sweep than before).
C2_NoMoveLowersQ ==
    [][(pc = "for" /\ threshold > 0)
        => QNum(work_graph, work_weight, new_partition')
             >= QNum(work_graph, work_weight, new_partition)]_vars

\* C2 witness: a move has been applied under a threshold > 0, and the modularity
\* of the partition is above that of the partition the search started from
C2_Witness ==
    /\ InSearch
    /\ threshold > 0
    /\ moves >= 1
    /\ new_partition # old_partition
    /\ QNum(work_graph, work_weight, new_partition)
         > QNum(work_graph, work_weight, old_partition)

\* C3: on a graph with at least one edge and with a threshold > 0 the local
\* search terminates: it reaches a sweep without a move and returns (Converged).
C3_Terminates ==
    (fn = "louvain_step" /\ Len(g.E) > 0 /\ threshold > 0) => <>(pc = "done")

\* C4: the value deltas returns for moving vertex v into a neighbouring community
\* n is the change of Newman's modularity, Q(v relocated to n) - Q(current).
C4_DeltaIsModularityChange ==
    AtDeltas =>
        \A n \in NeighComms(new_partition, neigh, v) :
            DeltaOf(n).exc = "" =>
                DeltaOf(n).num = QNum(work_graph, work_weight, Relocated(new_partition, v, n))
                                   - QNum(work_graph, work_weight, new_partition)

SingleEdge == [n |-> 2, E |-> << <<0, 1>> >>, directed |-> FALSE, isGraph |-> TRUE]

\* deltaq (numerator over m*m = 4) of moving 0 into the community of 1 on SingleEdge,
\* from the singleton partition and without a weight map
SingleEdgeDelta ==
    deltas(SingleEdge, 0, [c \in {0, 1} |-> {c}], 1, 0, 0, None, [x \in {0, 1} |-> 1], 2).num

\* C5: on the graph of one edge of weight 1 between 0 and 1, from the singleton
\* partition, the deltaq computed for merging is > 0, and with a threshold not
\* above it the search ends with 0 and 1 in one community.
C5_SingleEdgeMerges ==
    (fn = "louvain" /\ g = SingleEdge /\ partition = None /\ weight \in {None, OnesOn(SingleEdge)}) =>
        /\ AtDeltas =>
              \A n \in NeighComms(new_partition, neigh, v) :
                  DeltaOf(n).exc = "" /\ DeltaOf(n).num > 0
        /\ (pc \in {"done", "raised"} /\ threshold * 2 * 2 <= SingleEdgeDelta * ThrDen) =>
              (pc = "done" /\ new_partition[0] = new_partition[1])

\* C6: on two disjoint triangles with threshold 1e-5 and no seed the search ends
\* with exactly the communities {0,1,2} and {3,4,5}, of modularity 1/2, whatever
\* candidate is taken among equally good ones.
C6_TwoTriangles ==
    (g = TwoTriangles /\ pc \in {"done", "raised"}) =>
        /\ pc = "done"
        /\ {c2v[c] : c \in DOMAIN c2v} \ {{}} = {{0, 1, 2}, {3, 4, 5}}
        /\ 2 * QNum(work_graph, work_weight, new_partition) = m * m

\* C7: whenever louvain gets to invoke deltas, m is not zero.
C7_MNonZeroAtDeltas ==
    (fn = "louvain" /\ AtDeltas) => m # 0

\* C8: louvain on a directed graph raises the invalid-input error before any
\* computation: nothing is returned, no degree is computed, no step of the local
\* search runs, and the graph, the weights and the supplied partition stay as
\* they were.
C8_DirectedRejected ==
    /\ [](  (fn = "louvain" /\ g.directed /\ pc # "louvain") =>
              /\ pc = "raised" /\ exc = "TypeError"
              /\ ret = None /\ dendo = None
              /\ kw = None /\ m = 0
              /\ work_graph = None /\ new_partition = None /\ c2v = None
              /\ moves = 0  )
    /\ [][(fn = "louvain" /\ g.directed)
            => (g' = g /\ weight' = weight /\ partition' = partition)]_vars

\* C8 witness: louvain has rejected a directed graph that has edges and came with
\* weights and a seed partition
C8_Witness ==
    /\ fn = "louvain" /\ g.directed /\ g.isGraph
    /\ Len(g.E) > 0 /\ weight # None /\ partition # None
    /\ pc = "raised"

\* C9: louvain on an undirected graph without edges optimises nothing: it returns
\* the singleton partition when there is no seed, and the seed itself otherwise.
C9_ZeroEdges ==
    (fn = "louvain" /\ g.isGraph /\ ~g.directed /\ Len(g.E) = 0 /\ pc # "louvain") =>
        /\ pc = "done"
        /\ ret = IF partition = None THEN [x \in Vertices(g) |-> x] ELSE partition
        /\ c2v = None /\ new_partition = None /\ moves = 0

\* C9 witness: louvain has returned for a graph without edges and a seed that is
\* not the singleton partition
C9_Witness ==
    /\ fn = "louvain" /\ g.isGraph /\ ~g.directed /\ Len(g.E) = 0
    /\ partition # None
    /\ \E x \in Vertices(g) : partition[x] # x
    /\ pc = "done"

\* C10: without an edge weight map louvain takes every edge as of weight 1 and
\* completes normally.
C10_NoWeightCompletes ==
    (fn = "louvain" /\ weight = None /\ g.isGraph /\ ~g.directed) => pc # "raised"


\* C11: a second run of the local search, on the partition the first run returned
\* (same graph, weights and threshold), applies no move and returns that partition.
C11_RerunIsIdle ==
    (rerun /\ pc # "louvain_step") =>
        /\ pc # "raised"
        /\ moves = 0
        /\ new_partition = old_partition
        /\ pc = "done" => ret = old_partition

\* C11 witness: the second run has returned, on a graph where vertices had
\* neighbouring communities to weigh
C11_Witness ==
    /\ rerun
    /\ pc = "done"
    /\ Len(g.E) > 0
    /\ \E x \in Vertices(work_graph) : NeighComms(new_partition, neigh, x) # {}

C14_ReturnedIsFixedPoint ==
    (pc = "done" /\ c2v # None) =>
        \A x \in Vertices(work_graph) :
            \A n \in {new_partition[y] : y \in neigh[x] \ {x}} \ {new_partition[x]} :
                LET cs == CurrentSums(work_graph, work_weight, kw, c2v, new_partition[x], x)
                    dq == deltas(work_graph, x, c2v, n, cs.s2, cs.d, work_weight, kw, m)
                IN  /\ cs.exc = ""
                    /\ dq.exc = ""
                    /\ dq.num * ThrDen <= threshold * m * m

\* C14 witness: louvain_step has returned a partition in which a vertex has a
\* neighbouring community with a gain above zero, under a threshold > 0
C14_Witness ==
    /\ pc = "done"
    /\ c2v # None
    /\ threshold > 0
    /\ \E x \in Vertices(work_graph) :
          \E n \in NeighComms(new_partition, neigh, x) :
             LET cs == CurrentSums(work_graph, work_weight, kw, c2v, new_partition[x], x)
             IN  /\ cs.exc = ""
                 /\ deltas(work_graph, x, c2v, n, cs.s2, cs.d, work_weight, kw, m).num > 0

\* C15 (as the code has it): every move takes the vertex into a candidate
\* community whose gain is maximal among the candidates; among several of equal
\* maximal gain it is the one the iteration of the candidate set meets first.
C15_TargetIsMaximal ==
    [][(pc = "for" /\ new_partition' # new_partition) =>
        LET cand == NeighComms(new_partition, neigh, v)
        IN  /\ new_partition'[v] \in cand
            /\ \A n \in cand : DeltaOf(n).num <= DeltaOf(new_partition'[v]).num]_vars

\* C15 as stated: among candidate communities of the same maximal gain the move
\* target is the one with the lowest community id.
C15_LowestIdWins ==
    [][(pc = "for" /\ new_partition' # new_partition) =>
        \A n \in NeighComms(new_partition, neigh, v) :
            DeltaOf(n).num = DeltaOf(new_partition'[v]).num => new_partition'[v] <= n]_vars

\* C15 witness: the first move of the search has just been applied to vertex
\* v - 1, which had another candidate of the same gain as the one chosen
C15_Witness ==
    /\ pc = "for"
    /\ moves = 1
    /\ v >= 1
    /\ LET x    == v - 1
           P    == old_partition
           C    == reverse_dict(P, Vertices(work_graph))
           cs   == CurrentSums(work_graph, work_weight, kw, C, P[x], x)
           gain == [n \in NeighComms(P, neigh, x) |->
                      deltas(work_graph, x, C, n, cs.s2, cs.d, work_weight, kw, m).num]
       IN  /\ new_partition = [P EXCEPT ![x] = new_partition[x]]
           /\ new_partition[x] \in DOMAIN gain
           /\ \E n \in DOMAIN gain : n # new_partition[x] /\ gain[n] = gain[new_partition[x]]

\* C16: an emptied community stays empty: no candidate of an evaluated vertex is
\* an empty community, no move has an empty community for target, and no step
\* of a sweep adds an id to the set of non-empty communities or raises their
\* number.
C16_EmptyStaysEmpty ==
    /\ [](pc = "for" => \A n \in NeighComms(new_partition, neigh, v) : c2v[n] # {})
    /\ [][pc = "for" =>
            /\ new_partition' # new_partition => new_partition'[v] \in NonEmptyIds
            /\ NonEmptyIds' \subseteq NonEmptyIds
            /\ Cardinality(NonEmptyIds') <= Cardinality(NonEmptyIds)]_vars

\* C16 witness: a vertex with neighbouring communities is up for evaluation
\* while a community emptied by an earlier move exists
C16_Witness ==
    /\ pc = "for"
    /\ moves >= 1
    /\ \E c \in DOMAIN c2v : c2v[c] = {}
    /\ NeighComms(new_partition, neigh, v) # {}

\* C17: the local search writes only new_partition and c2v: no step of it changes
\* the partition passed in, the graph, the edge weights, the weighted degrees
\* or m, and the first entry of the dendrogram of louvain is the partition the
\* search started from, during the search and in the list louvain returns.
C17_SearchFrame ==
    /\ [][(pc = "while" \/ pc = "for" \/ pc = "return") =>
            /\ old_partition' = old_partition
            /\ partition' = partition
            /\ work_graph' = work_graph
            /\ work_weight' = work_weight
            /\ g' = g
            /\ weight' = weight
            /\ kw' = kw
            /\ m' = m
            /\ (dendo # None => dendo'[1] = dendo[1])]_vars
    /\ []((fn = "louvain" /\ dendo # None) =>
            /\ dendo[1] = old_partition
            /\ partition = None => dendo[1] = vertex_index(g)
            /\ (pc = "done" /\ c2v # None) => ret[1] = old_partition)
    /\ []((fn = "louvain_step" /\ ~rerun) => old_partition = partition)

\* C17 witness: a move has been applied in the search of louvain, and the first
\* dendrogram entry differs from the working partition
C17_Witness ==
    /\ fn = "louvain"
    /\ dendo # None
    /\ moves >= 1
    /\ new_partition # dendo[1]
    /\ dendo[1] = old_partition

\* C18: a vertex with no adjacent vertex other than itself (isolated, or with
\* self-loops only) is never moved, for every threshold >= 0: its evaluation
\* takes no move branch, and during the search and in the partition
\* louvain_step returns it has the community id of the input partition.
C18_LonelyVertexStays ==
    /\ [][(pc = "for" /\ neigh[v] \ {v} = {}) =>
            /\ new_partition' = new_partition
            /\ c2v' = c2v
            /\ changed' = changed
            /\ moves' = moves]_vars
    /\ [](InSearch =>
            \A x \in Vertices(work_graph) :
                neigh[x] \ {x} = {} => new_partition[x] = old_partition[x])
    /\ []((pc = "done" /\ fn = "louvain_step") =>
            \A x \in Vertices(work_graph) :
                neigh[x] \ {x} = {} => ret[x] = old_partition[x])

\* C18 witness: louvain_step has returned under threshold 0 on a graph with
\* edges that has a vertex without neighbours and shares its community with
\* another vertex
C18_Witness ==
    /\ pc = "done"
    /\ fn = "louvain_step"
    /\ threshold = 0
    /\ Len(g.E) > 0
    /\ \E x \in Vertices(work_graph) :
          /\ neigh[x] = {}
          /\ \E y \in Vertices(work_graph) : y # x /\ ret[y] = ret[x]

=============================================================================
